---------------------------- MODULE Spec2Model ----------------------------
(***************************************************************************)
(* Model of app.py: the Flask handler `index` and its two pipelines,       *)
(* combine_html_from_zip (bundle mode) and fetch_and_combine_url with its  *)
(* per-asset coroutine fetch_and_inline (URL mode).                        *)
(*                                                                         *)
(* Raw text (an HTML page, a file's content, the written output) is a      *)
(* sequence of lexemes (strings).  A parsed document is a sequence of      *)
(* nodes; the containers <head> and <body> hold their children in `kids`.  *)
(* A node is addressed by its path <<i>> or <<i, j>>: replace_with and     *)
(* append never move another node, so a path is the node's identity.       *)
(***************************************************************************)
EXTENDS Naturals, Sequences, FiniteSets

(* ------------------------------ bounds --------------------------------- *)
MaxNodes == 3
MaxDetNodes == 2
MaxFiles == 3

Reqs == {1, 2}

(* ------------------------- documents (bs4) ----------------------------- *)
NoAttr == <<>>

Leaf(tag, rel, ref, text) ==
    [tag |-> tag, rel |-> rel, ref |-> ref, text |-> text, kids |-> <<>>]

ContainerTags == {"head", "body"}

OpenLexeme(tag) == IF tag = "head" THEN "<head>"
                   ELSE IF tag = "body" THEN "<body>"
                   ELSE IF tag = "style" THEN "<style>"
                   ELSE "<script>"

CloseLexeme(tag) == IF tag = "head" THEN "</head>"
                    ELSE IF tag = "body" THEN "</body>"
                    ELSE IF tag = "style" THEN "</style>"
                    ELSE "</script>"

\* The element lexemes the pages and documents of the model are written in.
ElementLexemes ==
    { "<link rel=stylesheet href=a.css>", "<link rel=icon href=i.ico>",
      "<link rel=stylesheet>", "<script src=http://cdn/a.js>",
      "<script>x=1</script>", "<title>", "<p>" }

\* html.parser on one element lexeme: its tag and attributes.
LexElement(s) ==
    CASE s = "<link rel=stylesheet href=a.css>" ->
             Leaf("link", <<"stylesheet">>, <<"a.css">>, <<>>)
      [] s = "<link rel=icon href=i.ico>" ->
             Leaf("link", <<"icon">>, <<"i.ico">>, <<>>)
      [] s = "<link rel=stylesheet>" ->
             Leaf("link", <<"stylesheet">>, NoAttr, <<>>)
      [] s = "<script src=http://cdn/a.js>" ->
             Leaf("script", <<>>, <<"http://cdn/", "a.js">>, <<>>)
      [] s = "<script>x=1</script>" ->
             Leaf("script", <<>>, NoAttr, <<"x=1">>)
      [] s = "<title>" -> Leaf("title", <<>>, NoAttr, <<>>)
      [] s = "<p>" -> Leaf("p", <<>>, NoAttr, <<>>)
      [] OTHER -> Leaf("#text", <<>>, NoAttr, <<s>>)

NoOpen == [on |-> FALSE, node |-> Leaf("", <<>>, NoAttr, <<>>)]

\* BeautifulSoup(text, 'html.parser'): lexemes to tree.  `open` is the
\* container being filled; a container still open at the end is closed.
RECURSIVE ParseFrom(_, _, _, _)
ParseFrom(text, i, acc, open) ==
    IF i > Len(text)
    THEN IF open.on THEN Append(acc, open.node) ELSE acc
    ELSE LET s == text[i] IN
         IF s \in {"<head>", "<body>"}
         THEN ParseFrom(text, i + 1,
                        IF open.on THEN Append(acc, open.node) ELSE acc,
                        [on |-> TRUE,
                         node |-> Leaf(IF s = "<head>" THEN "head" ELSE "body",
                                       <<>>, NoAttr, <<>>)])
         ELSE IF s \in {"</head>", "</body>"}
         THEN ParseFrom(text, i + 1,
                        IF open.on THEN Append(acc, open.node) ELSE acc,
                        NoOpen)
         ELSE IF open.on
         THEN ParseFrom(text, i + 1, acc,
                        [open EXCEPT !.node.kids = Append(@, LexElement(s))])
         ELSE ParseFrom(text, i + 1, Append(acc, LexElement(s)), open)

BeautifulSoup(text) == ParseFrom(text, 1, <<>>, NoOpen)

\* str(tag) of a node without children.
SerializeLeaf(n) ==
    IF n.tag = "#text" THEN n.text
    ELSE IF \E s \in ElementLexemes : LexElement(s) = n
    THEN <<CHOOSE s \in ElementLexemes : LexElement(s) = n>>
    ELSE <<OpenLexeme(n.tag)>> \o n.text \o <<CloseLexeme(n.tag)>>

RECURSIVE SerializeSeq(_, _)
SerializeSeq(nodes, i) ==
    IF i > Len(nodes) THEN <<>>
    ELSE LET n == nodes[i] IN
         (IF n.tag \in ContainerTags
          THEN <<OpenLexeme(n.tag)>> \o SerializeSeq(n.kids, 1)
                                     \o <<CloseLexeme(n.tag)>>
          ELSE SerializeLeaf(n))
         \o SerializeSeq(nodes, i + 1)

\* str(soup)
Str(doc) == SerializeSeq(doc, 1)

\* Paths of all nodes in document order (find_all's traversal order).
RECURSIVE PathsFrom(_, _)
PathsFrom(doc, i) ==
    IF i > Len(doc) THEN <<>>
    ELSE <<<<i>>>> \o [j \in 1..Len(doc[i].kids) |-> <<i, j>>]
                   \o PathsFrom(doc, i + 1)

NodeAt(doc, p) == IF Len(p) = 1 THEN doc[p[1]] ELSE doc[p[1]].kids[p[2]]

\* soup.new_tag(tag_name) followed by new_tag.string = content
NewTag(tag_name, content) == Leaf(tag_name, <<>>, NoAttr, content)

\* tag.replace_with(new_tag): new_tag takes tag's place in its parent.
ReplaceWith(doc, p, new_tag) ==
    IF Len(p) = 1 THEN [doc EXCEPT ![p[1]] = new_tag]
    ELSE [doc EXCEPT ![p[1]].kids[p[2]] = new_tag]

\* soup.head / soup.body: index of the first such container, 0 for None.
Section(doc, tag) ==
    IF \E i \in 1..Len(doc) : doc[i].tag = tag
    THEN CHOOSE i \in 1..Len(doc) :
             doc[i].tag = tag /\ \A j \in 1..(i - 1) : doc[j].tag # tag
    ELSE 0


(* --------------------------- remote origin ----------------------------- *)
\* A URL is the sequence <<origin, directory..., file>>; a relative
\* reference is a sequence that does not start with an origin.
Origins == {"http://h/", "http://cdn/"}

BaseUrl == <<"http://h/", "dir/", "p.html">>

IsAbsolute(ref) == Len(ref) > 0 /\ ref[1] \in Origins

\* urllib.parse.urljoin(url, ref)
UrlJoin(url, ref) ==
    IF IsAbsolute(ref) THEN ref ELSE SubSeq(url, 1, Len(url) - 1) \o ref

\* The body the origin serves for an asset URL (response.text()).
ResponseText(url) == <<"/* from ">> \o url \o <<" */">>

UrlLexemes ==
    { "<link rel=stylesheet href=a.css>", "<link rel=icon href=i.ico>",
      "<link rel=stylesheet>", "<script src=http://cdn/a.js>",
      "<script>x=1</script>" }

SeqsUpTo(S, n) == UNION {[1..k -> S] : k \in 0..n}

InHeadAndBody(p, h) ==
    <<"<head>">> \o SubSeq(p, 1, h) \o <<"</head>", "<body>">>
                 \o SubSeq(p, h + 1, Len(p)) \o <<"</body>">>

\* The pages the origin may serve: up to n elements split over a head and
\* a body, or fewer than n bare elements.
Pages(n) ==
    SeqsUpTo(UrlLexemes, n - 1)
        \cup {InHeadAndBody(p, Len(p) \div 2) : p \in SeqsUpTo(UrlLexemes, n)}

\* What the primary request can end in: a network error or a status.
PrimaryOutcomes ==
    { [err |-> TRUE, status |-> 0] } \cup
    { [err |-> FALSE, status |-> s] : s \in {200, 204, 300, 404, 500} }

\* What one asset request can end in: an exception out of session.get, or
\* a response with a status.
AssetOutcomes ==
    { [exc |-> "none", status |-> 200], [exc |-> "none", status |-> 404],
      [exc |-> "TimeoutError", status |-> 0],
      [exc |-> "ClientConnectorError", status |-> 0] }

\* The bodies that can come with a primary outcome: a page with a 200, a
\* short page with a 300 (Multiple Choices), nothing otherwise.
ResponseBodies(p, n) ==
    IF p.status = 200 THEN Pages(n)
    ELSE IF p.status = 300 THEN Pages(1)
    ELSE {<<>>}

Pending == [exc |-> "pending", status |-> 0]

AssetUrls == {UrlJoin(BaseUrl, <<"a.css">>), <<"http://cdn/", "a.js">>}

(* ------------------------------ state ---------------------------------- *)
VARIABLES
    mode,       \* per request: "none", "url" or "zip" (the branch index takes)
    pc,         \* per request: where its handler stands
    page,       \* the HTML the origin serves at the requested URL
    prim,       \* how the origin answers the primary request
    stub,       \* per asset URL: the outcomes its request may have
    soup,       \* per request: the parsed document (local `soup`)
    tasks,      \* per request: the coroutines handed to asyncio.gather
    tstate,     \* per request, per task: its position and outcome
    mutLog,     \* per request: each tree mutation, with the tasks in flight
    order,      \* per request: the tasks in the order they finished
    upName,     \* per request: the uploaded file's client-side name
    upBundle,   \* per request: the uploaded archive's files, in walk order
    uploads,    \* UPLOAD_FOLDER: secured filename -> saved archive
    extracted,  \* per request: its extraction directory (mkdtemp)
    reads,      \* per request: the asset files opened so far
    out,        \* per request: the file at combined_html_path (mktemp)
    resp        \* per request: what index returned

vars == <<mode, pc, page, prim, stub, soup, tasks, tstate, mutLog, order,
          upName, upBundle, uploads, extracted, reads, out, resp>>

urlVars == <<soup, tasks, tstate, mutLog, order>>
zipVars == <<uploads, extracted, reads>>
inputs == <<mode, page, prim, stub, upName, upBundle>>

NoSoup == [set |-> FALSE, doc |-> <<>>]
NoFile == [exists |-> FALSE, data |-> <<>>]
NoResp == [kind |-> "none", name |-> "", body |-> <<>>]
NoDir == [exists |-> FALSE, files |-> <<>>]

\* send_file(combined_html_path, as_attachment=True, download_name=name)
SendFile(file, name) == [kind |-> "download", name |-> name, body |-> file.data]

\* return f"An error occurred: {e}"
ErrorPage(e) == [kind |-> "error", name |-> "", body |-> <<"An error occurred: ", e>>]

(* --------------------- fetch_and_combine_url --------------------------- *)
\* The bug of treating only server errors as failures.
RaiseForServerError(status) == status >= 500

\* response.raise_for_status(): raises for the error statuses.
RaiseForStatus(status) == status >= 400

HasStylesheetRel(n) == \E k \in 1..Len(n.rel) : n.rel[k] = "stylesheet"

\* soup.find_all(name, <attr>=True): paths, in document order.
FindAll(doc, name) ==
    SelectSeq(PathsFrom(doc, 1),
              LAMBDA p : NodeAt(doc, p).tag = name /\ NodeAt(doc, p).ref # NoAttr)

Coroutine(url, doc, p, tag_name) ==
    [url |-> UrlJoin(url, NodeAt(doc, p).ref), tag |-> p, tag_name |-> tag_name]

\* The task list: stylesheet links first, then scripts with a src.
Discover(url, doc) ==
    LET links == SelectSeq(FindAll(doc, "link"),
                           LAMBDA p : HasStylesheetRel(NodeAt(doc, p)))
        scripts == FindAll(doc, "script")
    IN  [k \in 1..Len(links) |-> Coroutine(url, doc, links[k], "style")]
        \o [k \in 1..Len(scripts) |-> Coroutine(url, doc, scripts[k], "script")]

(* ------------------------- fetch_and_inline ---------------------------- *)
\* Names bound in fetch_and_inline, and at module level.
FetchAndInlineLocals ==
    {"session", "url", "tag", "attr", "tag_name", "response", "content",
     "new_tag", "e"}

ModuleGlobals ==
    {"Flask", "request", "send_file", "render_template_string",
     "secure_filename", "os", "zipfile", "BeautifulSoup", "tempfile",
     "aiohttp", "asyncio", "logging", "urljoin", "app", "UPLOAD_FOLDER",
     "HTTP_TIMEOUT", "combine_html_from_zip", "fetch_and_inline",
     "fetch_and_combine_url", "index"}

\* Python's lookup of a bare name inside fetch_and_inline.
NameResolves(name) == name \in FetchAndInlineLocals \cup ModuleGlobals

\* `except Exception`: the classes it catches.
ExceptCatchesOnlyClientError(exc) == exc = "ClientConnectorError"

ExceptCatches(exc) == exc \in {"TimeoutError", "ClientConnectorError", "NameError"}

\* A task's position after `exc` is raised inside the try block.
AfterRaise(exc) == IF ExceptCatches(exc) THEN "done" ELSE "raised"

InFlight(r) == {i \in 1..Len(tasks[r]) : tstate[r][i].pc \in {"get", "text"}}

Unsettled(r) == {i \in 1..Len(tasks[r]) : tstate[r][i].pc \notin {"done", "raised"}}

\* Lines 80-82 on a document: the inline node takes the reference's place.
InlineInto(doc, t, content) == ReplaceWith(doc, t.tag, NewTag(t.tag_name, content))

\* The bug of waiting for the first task only (asyncio.wait with
\* return_when=FIRST_COMPLETED).
FirstCompleted(r) ==
    \/ tasks[r] = <<>>
    \/ \E i \in 1..Len(tasks[r]) : tstate[r][i].pc \in {"done", "raised"}

\* asyncio.gather(*tasks) resumes its awaiter: every task is finished, or
\* one has raised.
GatherResumes(r) ==
    \/ Unsettled(r) = {}
    \/ \E i \in 1..Len(tasks[r]) : tstate[r][i].pc = "raised"

\* The bug of appending the inline node to the document, as the bundle
\* pipeline does, with the document passed in.
AppendInline(doc, t, content) == Append(doc, NewTag(t.tag_name, content))

\* Lines 80-82 as they run: `soup` is looked up first, and only when the
\* name resolves is the tree changed.
TreeAfterInline(doc, t, content) ==
    IF NameResolves("soup") THEN InlineInto(doc, t, content) ELSE doc

(* ------------------------ URL mode, step by step ----------------------- *)
\* session.get(url) raises, or raise_for_status() does: the exception
\* leaves fetch_and_combine_url and index answers with the message.
PrimaryFails(r) ==
    /\ mode[r] = "url" /\ pc[r] = "url_start"
    /\ prim.err \/ RaiseForStatus(prim.status)
    /\ pc' = [pc EXCEPT ![r] = "error"]
    /\ resp' = [resp EXCEPT ![r] =
                   ErrorPage(IF prim.err THEN "ClientError" ELSE "ClientResponseError")]
    /\ UNCHANGED <<inputs, urlVars, zipVars, out>>

PrimaryResponds(r) ==
    /\ mode[r] = "url" /\ pc[r] = "url_start"
    /\ ~prim.err /\ ~RaiseForStatus(prim.status)
    /\ pc' = [pc EXCEPT ![r] = "url_body"]
    /\ UNCHANGED <<inputs, urlVars, zipVars, out, resp>>

\* html_content arrives; lines 94-110: parse, build the task list.
ParseAndCreateTasks(r) ==
    /\ mode[r] = "url" /\ pc[r] = "url_body"
    /\ LET doc == BeautifulSoup(page)
           ts == Discover(BaseUrl, doc)
       IN  /\ soup' = [soup EXCEPT ![r] = [set |-> TRUE, doc |-> doc]]
           /\ tasks' = [tasks EXCEPT ![r] = ts]
           /\ tstate' = [tstate EXCEPT ![r] =
                            [i \in 1..Len(ts) |-> [pc |-> "new", outcome |-> Pending]]]
    /\ pc' = [pc EXCEPT ![r] = "gather"]
    /\ UNCHANGED <<inputs, mutLog, order, zipVars, out, resp>>

\* The event loop runs a new task up to its session.get; tasks start in
\* the order gather scheduled them.
TaskStart(r, i) ==
    /\ pc[r] = "gather" /\ i \in 1..Len(tasks[r])
    /\ tstate[r][i].pc = "new"
    /\ \A j \in 1..(i - 1) : tstate[r][j].pc # "new"
    /\ tstate' = [tstate EXCEPT ![r][i].pc = "get"]
    /\ UNCHANGED <<inputs, pc, soup, tasks, mutLog, order, zipVars, out, resp>>

\* session.get settles: an exception (lines 86-87), a 200 (line 79) or
\* another status (line 85).
TaskResponse(r, i) ==
    /\ pc[r] = "gather" /\ i \in 1..Len(tasks[r])
    /\ tstate[r][i].pc = "get"
    /\ \E o \in stub[tasks[r][i].url] :
          /\ tstate' = [tstate EXCEPT ![r][i] =
                           [pc |-> IF o.exc # "none" THEN AfterRaise(o.exc)
                                   ELSE IF o.status = 200 THEN "text"
                                   ELSE "done",
                            outcome |-> o]]
          /\ order' = [order EXCEPT ![r] =
                          IF o.exc = "none" /\ o.status = 200 THEN @ ELSE Append(@, i)]
    /\ UNCHANGED <<inputs, pc, soup, tasks, mutLog, zipVars, out, resp>>

\* response.text() returns; lines 80-83 run without a suspension point.
TaskInline(r, i) ==
    /\ pc[r] = "gather" /\ i \in 1..Len(tasks[r])
    /\ tstate[r][i].pc = "text"
    /\ LET t == tasks[r][i]
           doc == TreeAfterInline(soup[r].doc, t, ResponseText(t.url))
       IN  /\ soup' = [soup EXCEPT ![r].doc = doc]
           /\ mutLog' = [mutLog EXCEPT ![r] =
                            IF doc # soup[r].doc
                            THEN @ \cup {[task |-> i, inflight |-> InFlight(r) \ {i}]}
                            ELSE @]
    /\ tstate' = [tstate EXCEPT ![r][i].pc =
                     IF NameResolves("soup") THEN "done" ELSE AfterRaise("NameError")]
    /\ order' = [order EXCEPT ![r] = Append(@, i)]
    /\ UNCHANGED <<inputs, pc, tasks, zipVars, out, resp>>

\* `await asyncio.gather(*tasks)` resumes: with a task's exception, which
\* index turns into the message, or normally, and lines 114-116 write
\* str(soup) to a fresh file.
GatherSettles(r) ==
    /\ mode[r] = "url" /\ pc[r] = "gather"
    /\ GatherResumes(r)
    /\ IF \E i \in 1..Len(tasks[r]) : tstate[r][i].pc = "raised"
       THEN /\ pc' = [pc EXCEPT ![r] = "error"]
            /\ resp' = [resp EXCEPT ![r] = ErrorPage("task exception")]
            /\ out' = out
       ELSE /\ pc' = [pc EXCEPT ![r] = "written"]
            /\ out' = [out EXCEPT ![r] = [exists |-> TRUE, data |-> Str(soup[r].doc)]]
            /\ resp' = resp
    /\ UNCHANGED <<inputs, urlVars, zipVars>>

DownloadName(m) == IF m = "url" THEN "combined_from_url.html" ELSE "combined_from_zip.html"

\* return send_file(combined_html_path, ...)
Send(r) ==
    /\ pc[r] = "written"
    /\ pc' = [pc EXCEPT ![r] = "sent"]
    /\ resp' = [resp EXCEPT ![r] = SendFile(out[r], DownloadName(mode[r]))]
    /\ UNCHANGED <<inputs, urlVars, zipVars, out>>

UrlStep(r) ==
    \/ PrimaryFails(r)
    \/ PrimaryResponds(r)
    \/ ParseAndCreateTasks(r)
    \/ \E i \in 1..Len(tasks[r]) : TaskStart(r, i)
    \/ \E i \in 1..Len(tasks[r]) : TaskResponse(r, i)
    \/ \E i \in 1..Len(tasks[r]) : TaskInline(r, i)
    \/ GatherSettles(r)
    \/ Send(r)

Finished(r) == pc[r] \in {"none", "sent", "error"}

(* --------------------------- uploaded bundles -------------------------- *)
\* A file name is the sequence of its dot-separated parts, each suffix with
\* its dot; a file is its name, its text and whether reading it succeeds
\* (a file that is not valid UTF-8 cannot be read).
File(name, data, readable) == [name |-> name, data |-> data, readable |-> readable]

IndexHtml ==
    File(<<"index", ".html">>,
         <<"<head>", "<title>", "</head>", "<body>", "<p>", "</body>">>, TRUE)

NoHeadHtml == File(<<"frag", ".html">>, <<"<body>", "<p>", "</body>">>, TRUE)

NoBodyHtml == File(<<"meta", ".html">>, <<"<head>", "<title>", "</head>">>, TRUE)

BackupHtml ==
    File(<<"index", ".html", ".bak">>,
         <<"<head>", "<title>", "</head>", "<body>", "<p>", "</body>">>, TRUE)

RedCss == File(<<"red", ".css">>, <<"body{color:red}">>, TRUE)

MarginCss == File(<<"margin", ".css">>, <<"p{margin:0}">>, TRUE)

BinaryCss == File(<<"binary", ".css">>, <<>>, FALSE)

AppJs == File(<<"app", ".js">>, <<"init()">>, TRUE)

BinaryJs == File(<<"binary", ".js">>, <<>>, FALSE)

Readme == File(<<"readme", ".txt">>, <<"hello">>, TRUE)

FileKinds ==
    {IndexHtml, NoHeadHtml, NoBodyHtml, BackupHtml, RedCss, MarginCss,
     BinaryCss, AppJs, BinaryJs, Readme}

UploadNames == {"site.zip", "../site.zip", "other.zip"}

\* werkzeug's secure_filename: path separators and leading dots are dropped.
SecureFilename(filename) == IF filename = "../site.zip" THEN "site.zip" ELSE filename

SecuredNames == {SecureFilename(n) : n \in UploadNames}

(* ----------------------- combine_html_from_zip ------------------------- *)
\* str.endswith on a file name
EndsWith(name, suffix) == Len(name) > 0 /\ name[Len(name)] = suffix

\* The bug of testing `'.html' in file` instead.
HasHtmlPart(file) == \E k \in 1..Len(file.name) : file.name[k] = ".html"

\* Line 35: file.endswith('.html')
IsHtmlFile(file) == EndsWith(file.name, ".html")

\* Lines 32-39: the first HTML file in os.walk order, 0 when there is none.
FindHtmlFile(files) ==
    IF \E k \in 1..Len(files) : IsHtmlFile(files[k])
    THEN CHOOSE k \in 1..Len(files) :
             IsHtmlFile(files[k]) /\ \A j \in 1..(k - 1) : ~IsHtmlFile(files[j])
    ELSE 0

\* Lines 49 and 58: every file of the tree with the suffix, in walk order.
FilesWithSuffix(files, suffix) == SelectSeq(files, LAMBDA f : EndsWith(f.name, suffix))

\* The bug of inserting the new node first.
InsertFirst(kids, node) == <<node>> \o kids

\* Tag.append(node): node becomes the last child.
AppendChild(kids, node) == Append(kids, node)

\* Lines 50-55 and 59-64: for each file open it, read it, build the tag
\* and append it to soup.head / soup.body.  The loop stops at the first
\* exception: the file cannot be read, or the section is None.
RECURSIVE InlineFiles(_, _, _, _, _, _)
InlineFiles(doc, files, i, section, tag_name, opened) ==
    IF i > Len(files)
    THEN [err |-> "", doc |-> doc, opened |-> opened]
    ELSE LET f == files[i]
             sec == Section(doc, section)
         IN  IF ~f.readable
             THEN [err |-> "UnicodeDecodeError", doc |-> doc,
                   opened |-> Append(opened, f.name)]
             ELSE IF sec = 0
             THEN [err |-> "'NoneType' object has no attribute 'append'",
                   doc |-> doc, opened |-> Append(opened, f.name)]
             ELSE InlineFiles(
                      [doc EXCEPT ![sec].kids = AppendChild(@, NewTag(tag_name, f.data))],
                      files, i + 1, section, tag_name, Append(opened, f.name))

(* ----------------------- bundle mode, step by step --------------------- *)
\* Lines 126-129: file.save(os.path.join(UPLOAD_FOLDER, secure_filename(...)))
SaveUpload(r) ==
    /\ mode[r] = "zip" /\ pc[r] = "zip_start"
    /\ uploads' = [uploads EXCEPT ![SecureFilename(upName[r])] =
                      [exists |-> TRUE, files |-> upBundle[r]]]
    /\ pc' = [pc EXCEPT ![r] = "saved"]
    /\ UNCHANGED <<inputs, urlVars, extracted, reads, out, resp>>

\* Lines 27-29: the archive at zip_file_path is extracted into a new directory.
Extract(r) ==
    /\ mode[r] = "zip" /\ pc[r] = "saved"
    /\ extracted' = [extracted EXCEPT ![r] = uploads[SecureFilename(upName[r])]]
    /\ pc' = [pc EXCEPT ![r] = "extracted"]
    /\ UNCHANGED <<inputs, urlVars, uploads, reads, out, resp>>

\* Lines 31-46: find and parse the document, or raise FileNotFoundError.
FindAndParse(r) ==
    /\ mode[r] = "zip" /\ pc[r] = "extracted"
    /\ LET k == FindHtmlFile(extracted[r].files)
       IN  IF k = 0
           THEN /\ pc' = [pc EXCEPT ![r] = "error"]
                /\ resp' = [resp EXCEPT ![r] =
                               ErrorPage("No HTML file found in the uploaded ZIP archive.")]
                /\ soup' = soup
           ELSE /\ pc' = [pc EXCEPT ![r] = "parsed"]
                /\ soup' = [soup EXCEPT ![r] =
                               [set |-> TRUE,
                                doc |-> BeautifulSoup(extracted[r].files[k].data)]]
                /\ resp' = resp
    /\ UNCHANGED <<inputs, tasks, tstate, mutLog, order, zipVars, out>>

\* One of the two loops, from position `from` to position `to`.
InlineLoop(r, from, to, suffix, section, tag_name) ==
    /\ mode[r] = "zip" /\ pc[r] = from
    /\ LET res == InlineFiles(soup[r].doc, FilesWithSuffix(extracted[r].files, suffix),
                              1, section, tag_name, reads[r])
       IN  /\ soup' = [soup EXCEPT ![r].doc = res.doc]
           /\ reads' = [reads EXCEPT ![r] = res.opened]
           /\ pc' = [pc EXCEPT ![r] = IF res.err = "" THEN to ELSE "error"]
           /\ resp' = [resp EXCEPT ![r] = IF res.err = "" THEN @ ELSE ErrorPage(res.err)]
    /\ UNCHANGED <<inputs, tasks, tstate, mutLog, order, uploads, extracted, out>>

\* Lines 48-55
InlineCss(r) == InlineLoop(r, "parsed", "css_done", ".css", "head", "style")

\* Lines 57-64
InlineJs(r) == InlineLoop(r, "css_done", "js_done", ".js", "body", "script")

\* Lines 66-69: str(soup) goes to a fresh file.
WriteCombined(r) ==
    /\ mode[r] = "zip" /\ pc[r] = "js_done"
    /\ out' = [out EXCEPT ![r] = [exists |-> TRUE, data |-> Str(soup[r].doc)]]
    /\ pc' = [pc EXCEPT ![r] = "written"]
    /\ UNCHANGED <<inputs, urlVars, zipVars, resp>>

ZipStep(r) ==
    \/ SaveUpload(r)
    \/ Extract(r)
    \/ FindAndParse(r)
    \/ InlineCss(r)
    \/ InlineJs(r)
    \/ WriteCombined(r)
    \/ Send(r)

(* --------------------------- specifications ---------------------------- *)
NoBundle == <<>>

InitRequestState ==
    /\ soup = [r \in Reqs |-> NoSoup]
    /\ tasks = [r \in Reqs |-> <<>>]
    /\ tstate = [r \in Reqs |-> <<>>]
    /\ mutLog = [r \in Reqs |-> {}]
    /\ order = [r \in Reqs |-> <<>>]
    /\ extracted = [r \in Reqs |-> NoDir]
    /\ reads = [r \in Reqs |-> <<>>]
    /\ out = [r \in Reqs |-> NoFile]
    /\ resp = [r \in Reqs |-> NoResp]

NoUploads ==
    /\ upName = [r \in Reqs |-> ""]
    /\ upBundle = [r \in Reqs |-> NoBundle]
    /\ uploads = [n \in SecuredNames |-> NoDir]

\* One URL request; the network may answer each asset request in any way.
Init ==
    /\ mode = [r \in Reqs |-> IF r = 1 THEN "url" ELSE "none"]
    /\ pc = [r \in Reqs |-> IF r = 1 THEN "url_start" ELSE "none"]
    /\ prim \in PrimaryOutcomes
    /\ page \in ResponseBodies(prim, MaxNodes)
    /\ stub = [u \in AssetUrls |-> AssetOutcomes]
    /\ NoUploads
    /\ InitRequestState

Next == \E r \in Reqs : UrlStep(r)

Spec == Init /\ [][Next]_vars

\* The same URL requested twice, one run after the other, against an
\* origin that answers each URL in one fixed way.
InitDet ==
    /\ mode = [r \in Reqs |-> "url"]
    /\ pc = [r \in Reqs |-> "url_start"]
    /\ prim \in PrimaryOutcomes
    /\ page \in ResponseBodies(prim, MaxDetNodes)
    /\ stub \in [AssetUrls -> {{o} : o \in AssetOutcomes}]
    /\ NoUploads
    /\ InitRequestState

NextDet == \E r \in Reqs : (\A q \in Reqs : q < r => Finished(q)) /\ UrlStep(r)

SpecDet == InitDet /\ [][NextDet]_vars

NoUrl ==
    /\ prim = [err |-> TRUE, status |-> 0]
    /\ page = <<>>
    /\ stub = [u \in AssetUrls |-> {}]

\* One bundle upload, of any bundle of up to MaxFiles files.
InitZip ==
    /\ mode = [r \in Reqs |-> IF r = 1 THEN "zip" ELSE "none"]
    /\ pc = [r \in Reqs |-> IF r = 1 THEN "zip_start" ELSE "none"]
    /\ upName = [r \in Reqs |-> IF r = 1 THEN "site.zip" ELSE ""]
    /\ \E b \in SeqsUpTo(FileKinds, MaxFiles) :
          upBundle = [r \in Reqs |-> IF r = 1 THEN b ELSE NoBundle]
    /\ uploads = [n \in SecuredNames |-> NoDir]
    /\ NoUrl
    /\ InitRequestState

NextZip == \E r \in Reqs : ZipStep(r)

SpecZip == InitZip /\ [][NextZip]_vars

ReqBundles == {<<IndexHtml, RedCss>>, <<IndexHtml, MarginCss, AppJs>>, <<Readme>>}

\* Two bundle uploads handled by two threads of the server at once.
InitReq ==
    /\ mode = [r \in Reqs |-> "zip"]
    /\ pc = [r \in Reqs |-> "zip_start"]
    /\ upName \in [Reqs -> UploadNames]
    /\ upBundle \in [Reqs -> ReqBundles]
    /\ uploads = [n \in SecuredNames |-> NoDir]
    /\ NoUrl
    /\ InitRequestState

SpecReq == InitReq /\ [][NextZip]_vars

(* ------------------------------- claims -------------------------------- *)
Range(q) == {q[k] : k \in DOMAIN q}

Written(r) == pc[r] \in {"written", "sent"}

Returned200(o) == o.exc = "none" /\ o.status = 200

FetchFailed(o) == o \in AssetOutcomes /\ ~Returned200(o)

\* The document as the origin served it, before any inlining.
Original == BeautifulSoup(page)

\* A stylesheet link with an href, or a script with a src.
IsReference(n) ==
    \/ n.tag = "link" /\ "stylesheet" \in Range(n.rel) /\ n.ref # NoAttr
    \/ n.tag = "script" /\ n.ref # NoAttr

ReferencePaths(doc) == {p \in Range(PathsFrom(doc, 1)) : IsReference(NodeAt(doc, p))}

\* The inline node task i is to leave in its reference's place.
InlineNode(r, i) == NewTag(tasks[r][i].tag_name, ResponseText(tasks[r][i].url))

Inlined(r, i) == NodeAt(soup[r].doc, tasks[r][i].tag) = InlineNode(r, i)

\* The node task i refers to is the one of the document `orig`, and its
\* markup is in the written file.
UntouchedIn(orig, r, i) ==
    LET n == NodeAt(orig, tasks[r][i].tag)
    IN  /\ NodeAt(soup[r].doc, tasks[r][i].tag) = n
        /\ SerializeLeaf(n)[1] \in Range(out[r].data)

Untouched(r, i) == UntouchedIn(Original, r, i)

TaskIds(r) == 1..Len(tasks[r])

\* C1: in URL mode, when every asset request returned 200, the written
\* document holds at each reference's place the style or script node with
\* the fetched text, holds no reference node any more, and the file is the
\* serialization of that document.
C1_AllFetchedAreInlined ==
    \A r \in Reqs :
        (/\ mode[r] = "url" /\ Written(r)
         /\ \A i \in TaskIds(r) : Returned200(tstate[r][i].outcome))
        => /\ \A i \in TaskIds(r) : Inlined(r, i)
           /\ ReferencePaths(soup[r].doc) = {}
           /\ Cardinality({p \in Range(PathsFrom(soup[r].doc, 1)) :
                              NodeAt(soup[r].doc, p).tag = "style"})
                = Cardinality({i \in TaskIds(r) : tasks[r][i].tag_name = "style"})
           /\ out[r].data = Str(soup[r].doc)

\* C2: in URL mode, when exactly one asset request failed and the others
\* returned 200, the request does not end in the error message, and the
\* written document has the others inlined and the failed reference's node
\* untouched.
C2_OneFailureIsolated ==
    \A r \in Reqs :
        (/\ mode[r] = "url"
         /\ Len(tasks[r]) >= 1
         /\ \A i \in TaskIds(r) : tstate[r][i].outcome \in AssetOutcomes
         /\ Cardinality({i \in TaskIds(r) : FetchFailed(tstate[r][i].outcome)}) = 1)
        => /\ pc[r] # "error"
           /\ Written(r) =>
                 \A i \in TaskIds(r) :
                     IF FetchFailed(tstate[r][i].outcome)
                     THEN Untouched(r, i) ELSE Inlined(r, i)
           /\ pc[r] = "sent" => resp[r].kind = "download"

\* C3: in URL mode no asset task ever ends with an exception; the request
\* ends in the error message only when the primary request failed; once the
\* document is written, the node of every reference whose request failed is
\* the original one and its markup is in the file; and the answer is the
\* download of that file.
C3_AssetErrorsContained ==
    \A r \in Reqs :
        mode[r] = "url" =>
            /\ \A i \in TaskIds(r) : tstate[r][i].pc # "raised"
            /\ pc[r] = "error" => ~soup[r].set /\ tasks[r] = <<>>
            /\ Written(r) =>
                  /\ out[r].data = Str(soup[r].doc)
                  /\ LET orig == Original
                     IN  \A i \in TaskIds(r) :
                             FetchFailed(tstate[r][i].outcome) => UntouchedIn(orig, r, i)
            /\ pc[r] = "sent" =>
                  resp[r] = SendFile(out[r], "combined_from_url.html")

\* A request answered with the download although two or more asset requests
\* failed, all of them, one by timeout and one by a refused connection.
C3_Witness ==
    /\ pc[1] = "sent" /\ mode[1] = "url" /\ resp[1].kind = "download"
    /\ Len(tasks[1]) >= 2
    /\ \A i \in TaskIds(1) : FetchFailed(tstate[1][i].outcome)
    /\ \E i \in TaskIds(1) : tstate[1][i].outcome.exc = "TimeoutError"
    /\ \E i \in TaskIds(1) : tstate[1][i].outcome.exc = "ClientConnectorError"

\* C4: in URL mode, once the output file is written every task created for
\* the discovered references is finished with one recorded outcome, the
\* tasks are one per reference of the served document, and each finished
\* exactly once.
C4_WrittenOnlyAfterFanIn ==
    \A r \in Reqs :
        (mode[r] = "url" /\ out[r].exists) =>
            /\ Unsettled(r) = {}
            /\ \A i \in TaskIds(r) : tstate[r][i].outcome \in AssetOutcomes
            /\ LET refs == ReferencePaths(Original)
               IN  /\ {tasks[r][i].tag : i \in TaskIds(r)} = refs
                   /\ Len(tasks[r]) = Cardinality(refs)
            /\ Len(order[r]) = Len(tasks[r])
            /\ Range(order[r]) = TaskIds(r)

\* The file is written after three tasks finished out of their starting
\* order, some with a 200 and some failed.
C4_Witness ==
    /\ mode[1] = "url" /\ out[1].exists /\ pc[1] = "written"
    /\ Len(tasks[1]) = 3
    /\ order[1] = <<3, 1, 2>>
    /\ \E i \in TaskIds(1) : Returned200(tstate[1][i].outcome)
    /\ \E i \in TaskIds(1) : FetchFailed(tstate[1][i].outcome)

C9_Non2xxIsFatal ==
    \A r \in Reqs :
        (/\ mode[r] = "url" /\ pc[r] # "url_start"
         /\ prim.err \/ prim.status < 200 \/ prim.status > 299)
        => /\ ~soup[r].set /\ tasks[r] = <<>> /\ ~out[r].exists
           /\ pc[r] = "error" /\ resp[r].kind = "error"

\* C9, amended: a primary request that ended in a network error or in a
\* status of 400 or more leaves no parsed document, no task, no output
\* file, and the answer is the error message.
C9_ErrorStatusIsFatal ==
    \A r \in Reqs :
        (/\ mode[r] = "url" /\ pc[r] # "url_start"
         /\ prim.err \/ prim.status >= 400)
        => /\ ~soup[r].set /\ tasks[r] = <<>> /\ ~out[r].exists
           /\ pc[r] = "error" /\ resp[r].kind = "error"

\* The primary request was answered 404 and the request ended in the message.
C9_Witness ==
    /\ mode[1] = "url" /\ pc[1] = "error"
    /\ ~prim.err /\ prim.status = 404
    /\ resp[1] = ErrorPage("ClientResponseError")

\* C10: two runs of the same URL against an origin that answers every URL
\* in one fixed way end with the same output file and the same answer,
\* whatever the order in which their asset tasks finished.
C10_SameOutputEveryRun ==
    \A r \in Reqs : \A q \in Reqs :
        (/\ mode[r] = "url" /\ mode[q] = "url"
         /\ pc[r] \in {"sent", "error"} /\ pc[q] \in {"sent", "error"})
        => out[r] = out[q] /\ resp[r] = resp[q]

\* Both runs are answered, their tasks having finished in different orders,
\* a request that returned 200 among them.
C10_Witness ==
    /\ pc[1] = "sent" /\ pc[2] = "sent"
    /\ Len(tasks[1]) >= 2
    /\ order[1] # order[2]
    /\ \E i \in TaskIds(1) : Returned200(tstate[1][i].outcome)

\* The files of a bundle whose name ends in the suffix, in walk order.
Named(bundle, suffix) ==
    SelectSeq(bundle, LAMBDA f : f.name[Len(f.name)] = suffix)

\* C6: for two bundle uploads handled at once, each request extracts the
\* archive it saved itself, and its saved archive is not overwritten by the
\* other request before it is extracted.
C6_RequestsIsolated ==
    \A r \in Reqs :
        mode[r] = "zip" =>
            /\ pc[r] = "saved" =>
                  uploads[SecureFilename(upName[r])].files = upBundle[r]
            /\ extracted[r].exists => extracted[r].files = upBundle[r]

\* C7: a bundle with no file ending in .html never has an asset file
\* opened, a document parsed or an output file written; once the search is
\* over the request has ended in the no-document message.
C7_NoDocumentFound ==
    \A r \in Reqs :
        (mode[r] = "zip" /\ Named(upBundle[r], ".html") = <<>>)
        => /\ reads[r] = <<>> /\ ~soup[r].set /\ ~out[r].exists
           /\ pc[r] \in {"zip_start", "saved", "extracted", "error"}
           /\ pc[r] = "error" =>
                 resp[r] = ErrorPage("No HTML file found in the uploaded ZIP archive.")

\* A bundle with a stylesheet and a script but no document ended in the message.
C7_Witness ==
    /\ mode[1] = "zip" /\ pc[1] = "error"
    /\ Named(upBundle[1], ".html") = <<>>
    /\ Named(upBundle[1], ".css") # <<>> /\ Named(upBundle[1], ".js") # <<>>
    /\ resp[1].kind = "error"

\* The primary document of a bundle that has one: its first .html file, parsed.
Primary(bundle) == BeautifulSoup(Named(bundle, ".html")[1].data)

Kids(doc, tag) == doc[Section(doc, tag)].kids

\* The children `kids` followed by one `tag_name` node per file, in order.
Gained(old, new, files, tag_name) ==
    /\ Len(new) = Len(old) + Len(files)
    /\ \A k \in 1..Len(old) : new[k] = old[k]
    /\ \A k \in 1..Len(files) :
           new[Len(old) + k] =
               [tag |-> tag_name, rel |-> <<>>, ref |-> <<>>,
                text |-> files[k].data, kids |-> <<>>]

\* C8: for a bundle whose primary document has a head and a body and whose
\* .css and .js files are all readable, the request does not fail, and the
\* written document is the primary document with one style node per .css
\* file appended to the head and one script node per .js file appended to
\* the body, in discovery order, each with its file's text, nothing else
\* changed; the file is its serialization.
C8_BundleInlined ==
    \A r \in Reqs :
        (/\ mode[r] = "zip"
         /\ Named(upBundle[r], ".html") # <<>>
         /\ Section(Primary(upBundle[r]), "head") # 0
         /\ Section(Primary(upBundle[r]), "body") # 0
         /\ \A f \in Range(Named(upBundle[r], ".css")) : f.readable
         /\ \A f \in Range(Named(upBundle[r], ".js")) : f.readable)
        => /\ pc[r] # "error"
           /\ Written(r) =>
                 LET old == Primary(upBundle[r])
                     new == soup[r].doc
                 IN  /\ Len(new) = Len(old)
                     /\ \A k \in 1..Len(old) :
                            [new[k] EXCEPT !.kids = <<>>] = [old[k] EXCEPT !.kids = <<>>]
                     /\ \A k \in 1..Len(old) :
                            old[k].tag \notin {"head", "body"} => new[k] = old[k]
                     /\ Gained(Kids(old, "head"), Kids(new, "head"),
                               Named(upBundle[r], ".css"), "style")
                     /\ Gained(Kids(old, "body"), Kids(new, "body"),
                               Named(upBundle[r], ".js"), "script")
                     /\ out[r].data = Str(new)
           /\ pc[r] = "sent" => resp[r] = SendFile(out[r], "combined_from_zip.html")

\* A bundle of a document, a stylesheet and a script was answered with the
\* download.
C8_Witness ==
    /\ mode[1] = "zip" /\ pc[1] = "sent"
    /\ Named(upBundle[1], ".css") # <<>> /\ Named(upBundle[1], ".js") # <<>>
    /\ resp[1].kind = "download"
    /\ "<style>" \in Range(resp[1].body) /\ "<script>" \in Range(resp[1].body)
=============================================================================
